---- MODULE Spec2Model ----
(***************************************************************************)
(* Model of sortable.core: the abstract base class Sortable, whose         *)
(* __init_subclass__ hook completes the rich-comparison methods of every   *)
(* subclass, and the comparison functions it assigns.                      *)
(*                                                                         *)
(* The class hierarchy is the one of examples/example.py: Person derives   *)
(* from Sortable and Student derives from Person; the relations each class *)
(* body defines are chosen freely.                                         *)
(***************************************************************************)
EXTENDS Integers, Sequences, FiniteSets

VARIABLES
  status,           \* per class: "undefined", "ok" (class statement done), "TypeError"
  supplied,         \* per class: the comparison methods its class body defines
  slots,            \* per class: its own __dict__ entry for each comparison method
  abstractmethods,  \* per class: cls.__abstractmethods__
  instance,         \* per class: outcome of cls(...): "none", "created", "TypeError"
  rereg,            \* number of extra cls.__init_subclass__() passes run so far
  call              \* the comparison call whose result the caller holds, if any

vars == <<status, supplied, slots, abstractmethods, instance, rereg, call>>

----------------------------------------------------------------------------
(* Bounds of the model *)

\* how many comparison methods the body of the subclass Student defines
MaxOverrides == 1

\* how many times the registration pass is run again on existing classes
MaxRereg == 1

\* depth of nested calls at which the interpreter raises RecursionError
RecursionLimit == 3

----------------------------------------------------------------------------
(* Names *)

EqOps == {"__eq__", "__ne__"}

_compare_ops == <<"__lt__", "__le__", "__gt__", "__ge__">>

OrdOps == {_compare_ops[i] : i \in 1..Len(_compare_ops)}

Ops == EqOps \cup OrdOps

Classes == {"Sortable", "Person", "Student"}

Subclasses == {"Person", "Student"}

\* the base class of each class statement
Bases == [Person |-> "Sortable", Student |-> "Person"]

\* The code points of a method name, as Python compares str values.
ord(name) ==
  CASE name = "__lt__" -> <<95, 95, 108, 116, 95, 95>>
    [] name = "__le__" -> <<95, 95, 108, 101, 95, 95>>
    [] name = "__gt__" -> <<95, 95, 103, 116, 95, 95>>
    [] name = "__ge__" -> <<95, 95, 103, 101, 95, 95>>
    [] name = "__eq__" -> <<95, 95, 101, 113, 95, 95>>
    [] name = "__ne__" -> <<95, 95, 110, 101, 95, 95>>

\* s < t for two str values given by their code points (lexicographic)
StrLess(s, t) ==
  \E i \in 1..Len(t) :
    /\ \A j \in 1..(i - 1) : j <= Len(s) /\ s[j] = t[j]
    /\ (i > Len(s) \/ s[i] < t[i])

----------------------------------------------------------------------------
(* Function objects *)

NoAttr == [kind |-> "absent", fn |-> "", owner |-> ""]

\* an @abstractmethod of Sortable (__isabstractmethod__ is True)
AbstractFn(op) == [kind |-> "abstract", fn |-> op, owner |-> "Sortable"]

\* a method written in the body of class c
UserFn(c, op) == [kind |-> "user", fn |-> op, owner |-> c]

\* a module-level function of sortable.core
CoreFn(name) == [kind |-> "core", fn |-> name, owner |-> "sortable.core"]

_compare_conversions ==
  [ __lt__ |-> [ __le__ |-> CoreFn("__le__from_lt"), __gt__ |-> CoreFn("__gt__from_lt"),
                 __ge__ |-> CoreFn("__ge__from_lt") ],
    __ge__ |-> [ __lt__ |-> CoreFn("__lt__from_ge"), __le__ |-> CoreFn("__le__from_ge"),
                 __gt__ |-> CoreFn("__gt__from_ge") ],
    __le__ |-> [ __lt__ |-> CoreFn("__lt__from_le"), __gt__ |-> CoreFn("__gt__from_le"),
                 __ge__ |-> CoreFn("__ge__from_le") ],
    __gt__ |-> [ __lt__ |-> CoreFn("__lt__from_gt"), __le__ |-> CoreFn("__le__from_gt"),
                 __ge__ |-> CoreFn("__ge__from_gt") ] ]

\* the __dict__ of class Sortable: six abstract methods
SortableDict == [op \in Ops |-> AbstractFn(op)]

\* the namespace of a class body that defines the methods ns
Namespace(c, ns) == [op \in Ops |-> IF op \in ns THEN UserFn(c, op) ELSE NoAttr]

----------------------------------------------------------------------------
(* Attribute lookup and the registration pass *)

\* getattr(cls, name, None): the class's own entry, else its bases' in turn
RECURSIVE getattr(_, _, _)
getattr(sl, c, name) ==
  IF sl[c][name] # NoAttr THEN sl[c][name]
  ELSE IF c = "Sortable" THEN NoAttr
  ELSE getattr(sl, Bases[c], name)

\* faulty variant: looks in the class's own __dict__ only, not along its bases
is_concrete_own_dict(sl, c, name) ==
  sl[c][name] # NoAttr /\ sl[c][name].kind # "abstract"

is_concrete(sl, c, name) ==
  LET fn == getattr(sl, c, name)
  IN  fn # NoAttr /\ fn.kind # "abstract"

\* setattr(cls, name, fn)
setattr(sl, c, name, fn) == [sl EXCEPT ![c][name] = fn]

\* faulty variant: the least name instead of the greatest
max_least(names) ==
  CHOOSE m \in names : \A o \in names : ~StrLess(ord(o), ord(m))

\* max() of a non-empty set of str
max(names) ==
  CHOOSE m \in names : \A o \in names : ~StrLess(ord(m), ord(o))

\* the set comprehension `concrete`
concrete(sl, c) ==
  {op \in DOMAIN _compare_conversions :
     getattr(sl, c, op) # NoAttr /\ is_concrete(sl, c, op)}

\* faulty variant: assigns __ne__ without looking at has_ne
ResolveEquality_overwriting(sl, c) ==
  LET has_eq == is_concrete(sl, c, "__eq__")
      sl1 == setattr(sl, c, "__ne__", CoreFn("_ne__from_eq"))
  IN  IF ~has_eq THEN setattr(sl1, c, "__eq__", CoreFn("_eq__from_ne")) ELSE sl1

\* the equality part of __init_subclass__: assigns the missing one of
\* __ne__ / __eq__; has_eq and has_ne are both read before either is assigned
ResolveEquality(sl, c) ==
  LET has_eq == is_concrete(sl, c, "__eq__")
      has_ne == is_concrete(sl, c, "__ne__")
      sl1 == IF ~has_ne THEN setattr(sl, c, "__ne__", CoreFn("_ne__from_eq")) ELSE sl
  IN  IF ~has_eq THEN setattr(sl1, c, "__eq__", CoreFn("_eq__from_ne")) ELSE sl1

\* faulty variant: the loop without its test `opname not in concrete`
RECURSIVE AssignConversions_unguarded(_, _, _, _, _)
AssignConversions_unguarded(sl, c, root, conc, todo) ==
  IF todo = {} THEN sl
  ELSE LET opname == CHOOSE o \in todo : TRUE
           sl1 == setattr(sl, c, opname, _compare_conversions[root][opname])
       IN  AssignConversions_unguarded(sl1, c, root, conc, todo \ {opname})

\* the loop over _compare_conversions[root].items()
RECURSIVE AssignConversions(_, _, _, _, _)
AssignConversions(sl, c, root, conc, todo) ==
  IF todo = {} THEN sl
  ELSE LET opname == CHOOSE o \in todo : TRUE
           sl1 == IF opname \notin conc
                  THEN setattr(sl, c, opname, _compare_conversions[root][opname])
                  ELSE sl
       IN  AssignConversions(sl1, c, root, conc, todo \ {opname})

\* the ordering part of __init_subclass__
ResolveOrdering(sl, c) ==
  IF \E i \in 1..Len(_compare_ops) : is_concrete(sl, c, _compare_ops[i])
  THEN LET conc == concrete(sl, c)
           root == max(conc)
       IN  AssignConversions(sl, c, root, conc, DOMAIN _compare_conversions[root])
  ELSE sl

\* faulty variant: demands both __eq__ and __ne__
init_subclass_requiring_both(sl, c) ==
  IF ~(is_concrete(sl, c, "__eq__") /\ is_concrete(sl, c, "__ne__"))
  THEN [raised |-> "TypeError", slots |-> sl]
  ELSE [raised |-> "none", slots |-> ResolveOrdering(ResolveEquality(sl, c), c)]

\* Sortable.__init_subclass__(cls): the TypeError, or the class dictionaries after it
init_subclass(sl, c) ==
  IF ~(is_concrete(sl, c, "__eq__") \/ is_concrete(sl, c, "__ne__"))
  THEN [raised |-> "TypeError", slots |-> sl]
  ELSE [raised |-> "none", slots |-> ResolveOrdering(ResolveEquality(sl, c), c)]

\* faulty variant: the abstract set as it was before the synthesis, when only
\* the methods of the class body were there
update_abstractmethods_stale(sl, abs, c) ==
  {name \in abs[Bases[c]] : sl[c][name].kind # "user"}

\* abc.update_abstractmethods(cls) (ABCMeta computes the same set when the class
\* statement completes): the bases' abstract names still abstract on cls, and
\* the abstract entries of cls itself
update_abstractmethods(sl, abs, c) ==
  {name \in abs[Bases[c]] : getattr(sl, c, name).kind = "abstract"}
    \cup {name \in Ops : sl[c][name].kind = "abstract"}

----------------------------------------------------------------------------
(* Calling the comparison methods *)

\* what a comparison method returns on a pair (True, False, NotImplemented)
Tri == {"True", "False", "NotImplemented"}

\* bool(v)
Truthy(v) == v \notin {"False", "None"}

\* not v
Not(v) == IF Truthy(v) THEN "False" ELSE "True"

\* an exception leaves the callee
Raised(r) == r.val = "RecursionError"

\* the outcome of a call: the value returned (or the exception raised), the
\* functions that ran, and whether an operator fell back on its default
Outcome(v, inv, fbk) == [val |-> v, invoked |-> inv, fallback |-> fbk]

\* outcome r0 followed by outcome r1, whose value is the result
Then(r0, r1) ==
  Outcome(r1.val, r0.invoked \cup r1.invoked, r0.fallback \/ r1.fallback)

\* `x and y`, x computed from outcome r0
And(x, r0, y) == IF Truthy(x) THEN Then(r0, y) ELSE [r0 EXCEPT !.val = x]

\* `x or y`, x computed from outcome r0
Or(x, r0, y) == IF Truthy(x) THEN [r0 EXCEPT !.val = x] ELSE Then(r0, y)

\* type(self).op(self, other) with depth - 1 frames below it; self stands for
\* the pair (self, other): its class, what the methods written by the author
\* return on it, and what an == or != falls back on
RECURSIVE CallMethod(_, _, _, _)

\* `self == other` / `self != other`: the method of type(self); when it
\* returns NotImplemented the operator asks the reflected method and then
\* compares identities, which gives the bool self.fb
RichCompare(sl, self, op, depth) ==
  LET r == CallMethod(sl, self, op, depth)
  IN  IF Raised(r) THEN r
      ELSE IF r.val = "NotImplemented"
      THEN Outcome(self.fb, r.invoked, TRUE)
      ELSE r

_ne__from_eq(sl, self, depth) ==
  LET result == CallMethod(sl, self, "__ne__", depth + 1)
  IN  IF Raised(result) THEN result
      ELSE IF result.val # "NotImplemented"
      THEN [result EXCEPT !.val = Not(result.val)]
      ELSE result

_eq__from_ne(sl, self, depth) ==
  LET result == CallMethod(sl, self, "__eq__", depth + 1)
  IN  IF Raised(result) THEN result
      ELSE IF result.val # "NotImplemented"
      THEN [result EXCEPT !.val = Not(result.val)]
      ELSE result

__gt__from_lt(sl, self, depth) ==
  LET op_result == CallMethod(sl, self, "__lt__", depth + 1)
  IN  IF Raised(op_result) \/ op_result.val = "NotImplemented" THEN op_result
      ELSE And(Not(op_result.val), op_result, RichCompare(sl, self, "__ne__", depth + 1))

__le__from_lt(sl, self, depth) ==
  LET op_result == CallMethod(sl, self, "__lt__", depth + 1)
  IN  IF Raised(op_result) \/ op_result.val = "NotImplemented" THEN op_result
      ELSE Or(op_result.val, op_result, RichCompare(sl, self, "__eq__", depth + 1))

__ge__from_lt(sl, self, depth) ==
  LET op_result == CallMethod(sl, self, "__lt__", depth + 1)
  IN  IF Raised(op_result) \/ op_result.val = "NotImplemented" THEN op_result
      ELSE [op_result EXCEPT !.val = Not(op_result.val)]

\* faulty variant: no test for NotImplemented
ge_from_le_unchecked(sl, self, depth) ==
  LET op_result == CallMethod(sl, self, "__le__", depth + 1)
  IN  IF Raised(op_result) THEN op_result
      ELSE Or(Not(op_result.val), op_result, RichCompare(sl, self, "__eq__", depth + 1))

__ge__from_le(sl, self, depth) ==
  LET op_result == CallMethod(sl, self, "__le__", depth + 1)
  IN  IF Raised(op_result) \/ op_result.val = "NotImplemented" THEN op_result
      ELSE Or(Not(op_result.val), op_result, RichCompare(sl, self, "__eq__", depth + 1))

__lt__from_le(sl, self, depth) ==
  LET op_result == CallMethod(sl, self, "__le__", depth + 1)
  IN  IF Raised(op_result) \/ op_result.val = "NotImplemented" THEN op_result
      ELSE And(op_result.val, op_result, RichCompare(sl, self, "__ne__", depth + 1))

__gt__from_le(sl, self, depth) ==
  LET op_result == CallMethod(sl, self, "__le__", depth + 1)
  IN  IF Raised(op_result) \/ op_result.val = "NotImplemented" THEN op_result
      ELSE [op_result EXCEPT !.val = Not(op_result.val)]

__lt__from_gt(sl, self, depth) ==
  LET op_result == CallMethod(sl, self, "__gt__", depth + 1)
  IN  IF Raised(op_result) \/ op_result.val = "NotImplemented" THEN op_result
      ELSE And(Not(op_result.val), op_result, RichCompare(sl, self, "__ne__", depth + 1))

__ge__from_gt(sl, self, depth) ==
  LET op_result == CallMethod(sl, self, "__gt__", depth + 1)
  IN  IF Raised(op_result) \/ op_result.val = "NotImplemented" THEN op_result
      ELSE Or(op_result.val, op_result, RichCompare(sl, self, "__eq__", depth + 1))

__le__from_gt(sl, self, depth) ==
  LET op_result == CallMethod(sl, self, "__gt__", depth + 1)
  IN  IF Raised(op_result) \/ op_result.val = "NotImplemented" THEN op_result
      ELSE [op_result EXCEPT !.val = Not(op_result.val)]

__le__from_ge(sl, self, depth) ==
  LET op_result == CallMethod(sl, self, "__ge__", depth + 1)
  IN  IF Raised(op_result) \/ op_result.val = "NotImplemented" THEN op_result
      ELSE Or(Not(op_result.val), op_result, RichCompare(sl, self, "__eq__", depth + 1))

__gt__from_ge(sl, self, depth) ==
  LET op_result == CallMethod(sl, self, "__ge__", depth + 1)
  IN  IF Raised(op_result) \/ op_result.val = "NotImplemented" THEN op_result
      ELSE And(op_result.val, op_result, RichCompare(sl, self, "__ne__", depth + 1))

__lt__from_ge(sl, self, depth) ==
  LET op_result == CallMethod(sl, self, "__ge__", depth + 1)
  IN  IF Raised(op_result) \/ op_result.val = "NotImplemented" THEN op_result
      ELSE [op_result EXCEPT !.val = Not(op_result.val)]

\* the body of a function of sortable.core, by name
CoreCall(name, sl, self, depth) ==
  CASE name = "_ne__from_eq"  -> _ne__from_eq(sl, self, depth)
    [] name = "_eq__from_ne"  -> _eq__from_ne(sl, self, depth)
    [] name = "__gt__from_lt" -> __gt__from_lt(sl, self, depth)
    [] name = "__le__from_lt" -> __le__from_lt(sl, self, depth)
    [] name = "__ge__from_lt" -> __ge__from_lt(sl, self, depth)
    [] name = "__ge__from_le" -> __ge__from_le(sl, self, depth)
    [] name = "__lt__from_le" -> __lt__from_le(sl, self, depth)
    [] name = "__gt__from_le" -> __gt__from_le(sl, self, depth)
    [] name = "__lt__from_gt" -> __lt__from_gt(sl, self, depth)
    [] name = "__ge__from_gt" -> __ge__from_gt(sl, self, depth)
    [] name = "__le__from_gt" -> __le__from_gt(sl, self, depth)
    [] name = "__le__from_ge" -> __le__from_ge(sl, self, depth)
    [] name = "__gt__from_ge" -> __gt__from_ge(sl, self, depth)
    [] name = "__lt__from_ge" -> __lt__from_ge(sl, self, depth)

CallMethod(sl, self, op, depth) ==
  LET fn == getattr(sl, self.cls, op)
  IN  IF depth > RecursionLimit THEN Outcome("RecursionError", {}, FALSE)
      ELSE CASE fn.kind = "user" -> Outcome(self.env[op], {fn}, FALSE)
             [] fn.kind = "abstract" -> Outcome("None", {fn}, FALSE)
             [] fn.kind = "core" ->
                  LET r == CoreCall(fn.fn, sl, self, depth)
                  IN  [r EXCEPT !.invoked = @ \cup {fn}]

\* the comparison methods the body of a function of sortable.core calls
Callees(name) ==
  CASE name = "_ne__from_eq"  -> {"__ne__"}
    [] name = "_eq__from_ne"  -> {"__eq__"}
    [] name = "__gt__from_lt" -> {"__lt__", "__ne__"}
    [] name = "__le__from_lt" -> {"__lt__", "__eq__"}
    [] name = "__ge__from_lt" -> {"__lt__"}
    [] name = "__ge__from_le" -> {"__le__", "__eq__"}
    [] name = "__lt__from_le" -> {"__le__", "__ne__"}
    [] name = "__gt__from_le" -> {"__le__"}
    [] name = "__lt__from_gt" -> {"__gt__", "__ne__"}
    [] name = "__ge__from_gt" -> {"__gt__", "__eq__"}
    [] name = "__le__from_gt" -> {"__gt__"}
    [] name = "__le__from_ge" -> {"__ge__", "__eq__"}
    [] name = "__gt__from_ge" -> {"__ge__", "__ne__"}
    [] name = "__lt__from_ge" -> {"__ge__"}

\* the methods a call of op on an instance of c can reach
RECURSIVE Reach(_, _, _, _)
Reach(sl, c, op, depth) ==
  LET fn == getattr(sl, c, op)
  IN  IF fn.kind = "core" /\ depth <= RecursionLimit
      THEN {op} \cup UNION {Reach(sl, c, o, depth + 1) : o \in Callees(fn.fn)}
      ELSE {op}

\* The inputs of a call: what the author's methods return on the pair. Only
\* the methods the call can reach matter; the pair's equality methods count
\* as soon as the call involves == or !=.
Relevant(sl, c, op) ==
  LET r == Reach(sl, c, op, 1)
      all == IF r \cap EqOps # {} THEN r \cup EqOps ELSE r
  IN  {o \in all : getattr(sl, c, o).kind = "user"}

Envs(sl, c, op) ==
  LET rel == Relevant(sl, c, op)
  IN  {[o \in Ops |-> IF o \in rel THEN f[o] ELSE "unused"] : f \in [rel -> Tri]}

\* what == and != can fall back on: it is an input only when an equality
\* method of the author returns NotImplemented on the pair
Fallbacks(env) ==
  IF \E o \in EqOps : env[o] = "NotImplemented" THEN {"True", "False"} ELSE {"False"}

NoCall == [cls |-> "none", op |-> "none", env |-> [o \in Ops |-> "unused"],
           fb |-> "unused", val |-> "none", invoked |-> {}]

----------------------------------------------------------------------------
(* The state machine *)

Init ==
  /\ status = [c \in Classes |-> IF c = "Sortable" THEN "ok" ELSE "undefined"]
  /\ supplied = [c \in Classes |-> {}]
  /\ slots = [c \in Classes |->
                IF c = "Sortable" THEN SortableDict ELSE [op \in Ops |-> NoAttr]]
  /\ abstractmethods = [c \in Classes |-> IF c = "Sortable" THEN Ops ELSE {}]
  /\ instance = [c \in Classes |-> "none"]
  /\ rereg = 0
  /\ call = NoCall

\* the class bodies the model lets class c have
Bodies(c) ==
  IF c = "Student" THEN {ns \in SUBSET Ops : Cardinality(ns) <= MaxOverrides}
  ELSE SUBSET Ops

\* class c(Bases[c]): with a body defining the methods ns. The class object is
\* built from the namespace, Sortable.__init_subclass__ runs on it, and ABCMeta
\* then records its abstract methods; a TypeError aborts the class statement.
ClassDef(c, ns) ==
  /\ call = NoCall
  /\ status[c] = "undefined"
  /\ status[Bases[c]] = "ok"
  /\ LET sl0 == [slots EXCEPT ![c] = Namespace(c, ns)]
         r == init_subclass(sl0, c)
     IN  /\ supplied' = [supplied EXCEPT ![c] = ns]
         /\ slots' = r.slots
         /\ IF r.raised = "TypeError"
            THEN /\ status' = [status EXCEPT ![c] = "TypeError"]
                 /\ UNCHANGED abstractmethods
            ELSE /\ status' = [status EXCEPT ![c] = "ok"]
                 /\ abstractmethods' =
                      [abstractmethods EXCEPT
                         ![c] = update_abstractmethods(r.slots, abstractmethods, c)]
  /\ UNCHANGED <<instance, rereg, call>>

\* c.__init_subclass__(): the registration pass run again on an existing class
Reregister(c) ==
  /\ call = NoCall
  /\ status[c] = "ok"
  /\ rereg < MaxRereg
  /\ LET r == init_subclass(slots, c)
     IN  /\ r.raised = "none"
         /\ slots' = r.slots
         /\ abstractmethods' =
              [abstractmethods EXCEPT
                 ![c] = update_abstractmethods(r.slots, abstractmethods, c)]
  /\ rereg' = rereg + 1
  /\ UNCHANGED <<status, supplied, instance, call>>

\* faulty variant: every registered class can be instantiated
Instantiate_unchecked(c) ==
  /\ call = NoCall
  /\ status[c] = "ok"
  /\ instance[c] = "none"
  /\ instance' = [instance EXCEPT ![c] = "created"]
  /\ UNCHANGED <<status, supplied, slots, abstractmethods, rereg, call>>

\* c(...): object.__new__ refuses a class whose __abstractmethods__ is not empty
Instantiate(c) ==
  /\ call = NoCall
  /\ status[c] = "ok"
  /\ instance[c] = "none"
  /\ instance' = [instance EXCEPT
                    ![c] = IF abstractmethods[c] # {} THEN "TypeError" ELSE "created"]
  /\ UNCHANGED <<status, supplied, slots, abstractmethods, rereg, call>>

\* a.op(b) for two instances a, b of class c; the statements of the program
\* run one after the other, so the call starts when no result is pending
Call(c, op) ==
  /\ call = NoCall
  /\ instance[c] = "created"
  /\ \E env \in Envs(slots, c, op) : \E fb \in Fallbacks(env) :
       LET r == CallMethod(slots, [cls |-> c, env |-> env, fb |-> fb], op, 1)
       IN  call' = [cls |-> c, op |-> op, env |-> env,
                    fb |-> IF r.fallback THEN fb ELSE "unused",
                    val |-> r.val, invoked |-> r.invoked]
  /\ UNCHANGED <<status, supplied, slots, abstractmethods, instance, rereg>>

\* the caller is done with the result of the call
Discard ==
  /\ call # NoCall
  /\ call' = NoCall
  /\ UNCHANGED <<status, supplied, slots, abstractmethods, instance, rereg>>

Next ==
  \/ \E c \in Subclasses : \E ns \in Bodies(c) : ClassDef(c, ns)
  \/ \E c \in Subclasses : Reregister(c)
  \/ \E c \in Subclasses : Instantiate(c)
  \/ \E c \in Subclasses : \E op \in Ops : Call(c, op)
  \/ Discard

Spec == Init /\ [][Next]_vars

\* the shape of the state; a call never reads a value that is not an input
TypeOK ==
  /\ status \in [Classes -> {"undefined", "ok", "TypeError"}]
  /\ supplied \in [Classes -> SUBSET Ops]
  /\ abstractmethods \in [Classes -> SUBSET Ops]
  /\ instance \in [Classes -> {"none", "created", "TypeError"}]
  /\ rereg \in 0..MaxRereg
  /\ call.val \in Tri \cup {"None", "RecursionError", "none"}

----------------------------------------------------------------------------
(* Vocabulary of the properties *)

Bool == {"True", "False"}

\* the precedence of the ordering relations when a root is chosen
Precedence == <<"__lt__", "__le__", "__gt__", "__ge__">>

\* the element of a non-empty set of ordering relations highest in Precedence
Highest(S) ==
  Precedence[CHOOSE i \in 1..Len(Precedence) :
               /\ Precedence[i] \in S
               /\ \A j \in 1..(i - 1) : Precedence[j] \notin S]

\* what each function of sortable.core says it computes: "Return a > b.
\* Computed by Sortable from (not a < b) and (a != b)." is [target |-> "__gt__",
\* root |-> "__lt__"]
DerivedAs(name) ==
  CASE name = "__gt__from_lt" -> [target |-> "__gt__", root |-> "__lt__"]
    [] name = "__le__from_lt" -> [target |-> "__le__", root |-> "__lt__"]
    [] name = "__ge__from_lt" -> [target |-> "__ge__", root |-> "__lt__"]
    [] name = "__ge__from_le" -> [target |-> "__ge__", root |-> "__le__"]
    [] name = "__lt__from_le" -> [target |-> "__lt__", root |-> "__le__"]
    [] name = "__gt__from_le" -> [target |-> "__gt__", root |-> "__le__"]
    [] name = "__lt__from_gt" -> [target |-> "__lt__", root |-> "__gt__"]
    [] name = "__ge__from_gt" -> [target |-> "__ge__", root |-> "__gt__"]
    [] name = "__le__from_gt" -> [target |-> "__le__", root |-> "__gt__"]
    [] name = "__le__from_ge" -> [target |-> "__le__", root |-> "__ge__"]
    [] name = "__gt__from_ge" -> [target |-> "__gt__", root |-> "__ge__"]
    [] name = "__lt__from_ge" -> [target |-> "__lt__", root |-> "__ge__"]
    [] OTHER -> [target |-> "none", root |-> "none"]

\* the relations concrete for class c when its registration starts: the ones
\* its body defines and the concrete ones it inherits
ConcreteAtRegistration(c) ==
  supplied[c] \cup {op \in Ops : is_concrete(slots, Bases[c], op)}

\* the ordering relations among them: the set S of the ordering resolver
S(c) == ConcreteAtRegistration(c) \cap OrdOps

\* the ordering relations written by the author of c or of a class above it
RECURSIVE OrderingWritten(_)
OrderingWritten(c) ==
  IF c = "Sortable" THEN {}
  ELSE (supplied[c] \cap OrdOps) \cup OrderingWritten(Bases[c])

\* the function a call resolved to
Called == getattr(slots, call.cls, call.op)

\* a call of a synthesized ordering relation is pending
DerivedCall == call # NoCall /\ call.op \in OrdOps /\ Called.kind = "core"

\* the value of the type's resolved EQ / NE on the pair of the pending call, as
\* the equality resolver defines them: the author's method, else the negation
\* of the author's other method
ResolvedEq ==
  IF getattr(slots, call.cls, "__eq__").kind = "user"
  THEN call.env["__eq__"] ELSE Not(call.env["__ne__"])

ResolvedNe ==
  IF getattr(slots, call.cls, "__ne__").kind = "user"
  THEN call.env["__ne__"] ELSE Not(call.env["__eq__"])

BNot(x) == IF x = "True" THEN "False" ELSE "True"

BAnd(x, y) == IF x = "True" /\ y = "True" THEN "True" ELSE "False"

BOr(x, y) == IF x = "True" \/ y = "True" THEN "True" ELSE "False"

\* the closed-form identities of the ordering resolver
Identity(root, op, r, eq, ne) ==
  CASE root = "__lt__" /\ op = "__le__" -> BOr(r, eq)
    [] root = "__lt__" /\ op = "__gt__" -> BAnd(BNot(r), ne)
    [] root = "__lt__" /\ op = "__ge__" -> BNot(r)
    [] root = "__le__" /\ op = "__lt__" -> BAnd(r, ne)
    [] root = "__le__" /\ op = "__gt__" -> BNot(r)
    [] root = "__le__" /\ op = "__ge__" -> BOr(BNot(r), eq)
    [] root = "__gt__" /\ op = "__lt__" -> BAnd(BNot(r), ne)
    [] root = "__gt__" /\ op = "__le__" -> BNot(r)
    [] root = "__gt__" /\ op = "__ge__" -> BOr(r, eq)
    [] root = "__ge__" /\ op = "__lt__" -> BNot(r)
    [] root = "__ge__" /\ op = "__le__" -> BOr(BNot(r), eq)
    [] root = "__ge__" /\ op = "__gt__" -> BAnd(r, ne)

----------------------------------------------------------------------------
(* Properties *)

\* C1: when a type supplies only EQ, the synthesized notEquals(a, b) returns
\* the negation of equals(a, b) wherever equals returns true or false; when it
\* supplies only NE, the synthesized equals(a, b) returns the negation of
\* notEquals(a, b); each call terminates with a result.
C1_SynthesizedEqualityNegates ==
  call # NoCall =>
    /\ (call.op = "__ne__" /\ Called = CoreFn("_ne__from_eq")
          /\ call.env["__eq__"] \in Bool)
        => call.val = BNot(call.env["__eq__"])
    /\ (call.op = "__eq__" /\ Called = CoreFn("_eq__from_ne")
          /\ call.env["__ne__"] \in Bool)
        => call.val = BNot(call.env["__ne__"])

\* C2: for a type with exactly one ordering relation R written (the root) and
\* a pair on which R returns true or false, each synthesized ordering relation
\* returns the value of its closed-form identity over R and the type's
\* resolved EQ and NE.
C2_DerivedOrderingIdentities ==
  DerivedCall =>
    LET root == DerivedAs(Called.fn).root
    IN  (/\ OrderingWritten(call.cls) = {root}
         /\ call.env[root] \in Bool
         /\ \A o \in EqOps : call.env[o] \in Bool \cup {"unused"})
        => call.val = Identity(root, call.op, call.env[root], ResolvedEq, ResolvedNe)

\* C3: a type that has neither EQ nor NE concrete fails with the definition
\* error during its definition, before any relation slot is assigned, and is
\* never usable; a type that has one of them raises no error at definition,
\* whatever ordering relations it has.
C3_DefinitionError ==
  \A c \in Subclasses :
    status[c] # "undefined" =>
      /\ status[c] = "TypeError" <=> ConcreteAtRegistration(c) \cap EqOps = {}
      /\ status[c] = "TypeError" =>
           /\ slots[c] = Namespace(c, supplied[c])
           /\ abstractmethods[c] = {}
           /\ instance[c] = "none"
           /\ call.cls # c

C3_Witness ==
  /\ status["Person"] = "TypeError"
  /\ supplied["Person"] = {"__lt__", "__ge__"}

\* C4: when the set S of concrete ordering relations of a type is not empty,
\* every ordering relation outside S is assigned the function derived from the
\* element of S highest in the precedence LT > LE > GT > GE.
C4_RootPrecedence ==
  \A c \in Subclasses :
    (status[c] = "ok" /\ S(c) # {}) =>
      \A op \in OrdOps \ S(c) :
        /\ slots[c][op].kind = "core"
        /\ DerivedAs(slots[c][op].fn) = [target |-> op, root |-> Highest(S(c))]

C4_Witness ==
  /\ status["Person"] = "ok"
  /\ supplied["Person"] \cap OrdOps = {"__lt__", "__ge__"}
  /\ slots["Person"]["__le__"] = CoreFn("__le__from_lt")
  /\ slots["Person"]["__gt__"] = CoreFn("__gt__from_lt")

\* C5: when the root relation returns NOT-APPLICABLE on a pair, a relation
\* synthesized from that root returns NOT-APPLICABLE on the pair and neither
\* EQ nor NE is invoked during the call.
C5_NotApplicablePropagates ==
  DerivedCall =>
    (call.env[DerivedAs(Called.fn).root] = "NotImplemented"
       => /\ call.val = "NotImplemented"
          /\ \A o \in EqOps : getattr(slots, call.cls, o) \notin call.invoked
          /\ call.fb = "unused")

C5_Witness ==
  /\ DerivedCall
  /\ Called = CoreFn("__ge__from_le")
  /\ call.env["__le__"] = "NotImplemented"
  /\ call.val = "NotImplemented"
  /\ getattr(slots, call.cls, "__le__") \in call.invoked

\* C6: registration never replaces a relation the body of the type defines:
\* each of them is the author's implementation after registration.
C6_SuppliedKept ==
  \A c \in Subclasses :
    status[c] = "ok" =>
      \A op \in supplied[c] : slots[c][op] = UserFn(c, op)

C6_Witness ==
  /\ status["Person"] = "ok"
  /\ supplied["Person"] = {"__eq__", "__ne__", "__le__", "__gt__"}
  /\ rereg > 0

\* C7 as stated: a type registered with EQ or NE but no ordering relation can
\* be instantiated, equals succeeds on its instances, and an ordering relation
\* raises the capability error at the call.
C7_EqualityOnlyUsable ==
  \A c \in Subclasses :
    (status[c] = "ok" /\ S(c) = {}) =>
      /\ instance[c] # "none" => instance[c] = "created"
      /\ (call.cls = c /\ call.op \in OrdOps) => call.val = "CapabilityError"
      /\ (call.cls = c /\ call.op = "__eq__") => call.val \in Tri

\* C7 amended: a type registered with EQ or NE but no ordering relation is
\* defined without error and stays abstract: creating an instance of it
\* raises an error, so no relation is ever called on an instance of it.
C7_EqualityOnlyAbstract ==
  \A c \in Subclasses :
    (status[c] = "ok" /\ S(c) = {}) =>
      /\ abstractmethods[c] = OrdOps
      /\ instance[c] \in {"none", "TypeError"}
      /\ call.cls # c

C7_Witness ==
  /\ status["Person"] = "ok"
  /\ supplied["Person"] = {"__eq__"}
  /\ instance["Person"] = "TypeError"

\* C8: after a successful registration, a type with a concrete ordering
\* relation (its own or inherited) has all six relations concrete and no
\* abstract relation, and is instantiable; a type with none has EQ and NE
\* concrete and exactly LT, LE, GT, GE marked abstract.
C8_AbstractnessBookkeeping ==
  \A c \in Subclasses :
    status[c] = "ok" =>
      /\ S(c) # {} =>
           /\ \A op \in Ops : is_concrete(slots, c, op)
           /\ abstractmethods[c] = {}
           /\ instance[c] # "TypeError"
      /\ S(c) = {} =>
           /\ \A op \in EqOps : is_concrete(slots, c, op)
           /\ \A op \in OrdOps : ~is_concrete(slots, c, op)
           /\ abstractmethods[c] = OrdOps

C8_Witness ==
  /\ status["Student"] = "ok"
  /\ abstractmethods["Person"] = OrdOps
  /\ supplied["Student"] = {"__le__"}
  /\ abstractmethods["Student"] = {}
  /\ instance["Student"] = "created"

\* C9: registering a subtype of a type that has concrete ordering relations
\* succeeds, changes nothing on the parent and synthesizes no ordering
\* relation: each ordering relation the subtype defines is its own, each other
\* one is the parent's.
C9_SubtypeKeepsInherited ==
  [][(status["Student"] = "undefined" /\ status'["Student"] # "undefined") =>
       /\ slots'["Person"] = slots["Person"]
       /\ abstractmethods'["Person"] = abstractmethods["Person"]
       /\ (\E o \in OrdOps : is_concrete(slots, "Person", o)) =>
            /\ status'["Student"] = "ok"
            /\ \A op \in OrdOps :
                 IF op \in supplied'["Student"]
                 THEN slots'["Student"][op] = UserFn("Student", op)
                 ELSE /\ slots'["Student"][op] = NoAttr
                      /\ getattr(slots', "Student", op) = slots["Person"][op]
    ]_vars

C9_Witness ==
  /\ status["Student"] = "ok"
  /\ supplied["Person"] \cap OrdOps = {"__le__"}
  /\ supplied["Student"] = {"__lt__"}
  /\ slots["Person"]["__lt__"] = CoreFn("__lt__from_le")
  /\ getattr(slots, "Student", "__gt__") = CoreFn("__gt__from_le")

\* C10: running the registration pass again on a registered type leaves its
\* six relation slots and its set of abstract relations as they were.
C10_RegistrationIdempotent ==
  [][rereg' # rereg =>
       /\ slots' = slots
       /\ abstractmethods' = abstractmethods
       /\ status' = status
    ]_vars

C10_Witness ==
  /\ rereg > 0
  /\ status["Student"] = "ok"
  /\ supplied["Person"] = {"__ne__", "__ge__"}

====
